---- MODULE Spec2Model ----
(***************************************************************************)
(* A state-machine model of ringdown.fit.Fit (src/ringdown/fit.py): the    *)
(* per-detector series, the analysis target with its derived start times   *)
(* and antenna patterns, the analysis window (start index, sample count),  *)
(* the ACF mapping and the payload handed to the sampler.                  *)
(*                                                                         *)
(* Conventions.  Times and durations are integers in ticks.  A Python      *)
(* value that may be None is a sequence: <<>> is None and <<v>> is v.  A   *)
(* Python dict is the sequence of its <<key, value>> items in insertion    *)
(* order.  A property read that may raise is a record [exc, val].          *)
(***************************************************************************)
EXTENDS Integers, Sequences, FiniteSets, TLC

VARIABLES model, data, acfs, start_times, antenna_patterns, target,
          _duration, _n_analyze, _n_modes, modes, _prior_settings,
          result, prior, last, given

vars == <<model, data, acfs, start_times, antenna_patterns, target,
          _duration, _n_analyze, _n_modes, modes, _prior_settings,
          result, prior, last, given>>

----------------------------------------------------------------------------
(* Bounds of the model. *)

MaxLen == 3
MaxT0 == 2
MaxDuration == 3
MaxCount == 2
MaxDelta == 2

----------------------------------------------------------------------------
(* Python values. *)

None == <<>>
Some(v) == <<v>>
Truthy(x) == x # None /\ x[1] # 0

Ok(v) == [exc |-> "", val |-> v]
Raise(e) == [exc |-> e, val |-> None]

(* dict: items in insertion order; assigning a present key keeps its place. *)
Keys(d) == [i \in 1..Len(d) |-> d[i][1]]
Values(d) == [i \in 1..Len(d) |-> d[i][2]]
Has(d, k) == \E i \in 1..Len(d) : d[i][1] = k
Get(d, k) == d[CHOOSE i \in 1..Len(d) : d[i][1] = k][2]
GetOr(d, k, dflt) == IF Has(d, k) THEN Get(d, k) ELSE dflt
Put(d, k, v) ==
    IF Has(d, k)
    THEN [i \in 1..Len(d) |-> IF d[i][1] = k THEN <<k, v>> ELSE d[i]]
    ELSE Append(d, <<k, v>>)

----------------------------------------------------------------------------
(* Detector series (ringdown.data.Data): n samples, the k-th (from 0) at   *)
(* time first + k*delta_t.                                                 *)

MODELS == {"ftau", "mchi", "mchi_aligned"}

NoneIfo == "None"

Series(first, n, dt) == [first |-> first, n |-> n, delta_t |-> dt]
time(d, k) == d.first + k * d.delta_t
Abs(x) == IF x < 0 THEN 0 - x ELSE x

(* argmin(abs(d.time - t0)): the first index at the least distance. *)
argmin(d, t0) ==
    CHOOSE k \in 0..(d.n - 1) :
        \A j \in 0..(d.n - 1) :
            \/ Abs(time(d, k) - t0) < Abs(time(d, j) - t0)
            \/ Abs(time(d, k) - t0) = Abs(time(d, j) - t0) /\ k <= j

(* len(d.iloc[lo:hi]) for 0 <= lo <= hi: the slice stops at the series end. *)
Min2(a, b) == IF a <= b THEN a ELSE b
Max2(a, b) == IF a >= b THEN a ELSE b
ilocLen(d, lo, hi) == Max2(0, Min2(d.n, hi) - Min2(d.n, lo))

----------------------------------------------------------------------------
(* Detector geometry (lal): light-travel delay from geocenter and antenna  *)
(* response, as tables over the inputs the calls receive.                  *)

IfoNum(ifo) == IF ifo = "H1" THEN 1 ELSE 2
TimeDelayFromEarthCenter(ifo, ra, dec, t0) ==
    IF ifo = "H1" THEN ra + dec ELSE 0 - ra
ComputeDetAMResponse(ifo, ra, dec, psi, t0) ==
    <<10 * IfoNum(ifo) + 2 * ra + dec + 4 * t0, 5 + psi>>

----------------------------------------------------------------------------
(* Read-only properties of Fit. *)

ifos == Keys(data)

has_target == target.t0 # None

start_indices ==
    IF has_target
    THEN IF \E i \in 1..Len(data) : ~Has(start_times, data[i][1])
         THEN Raise("KeyError")
         ELSE Ok([i \in 1..Len(data) |->
                    <<data[i][1],
                      argmin(data[i][2], Get(start_times, data[i][1]))>>])
    ELSE Ok(<<>>)

(* int(round(x / y)) for x >= 0, y > 0: to nearest, a half to the even side. *)
(* Mutant of round: the quotient truncated. *)
roundFloor(x, y) == x \div y
round(x, y) ==
    LET q == x \div y
        r == x % y
    IN  IF 2 * r < y THEN q
        ELSE IF 2 * r > y THEN q + 1
        ELSE IF q % 2 = 0 THEN q ELSE q + 1

(* Mutant of min: the largest element. *)
RECURSIVE max(_)
max(s) == IF Len(s) = 1 THEN s[1] ELSE Max2(s[1], max(Tail(s)))
RECURSIVE min(_)
min(s) == IF Len(s) = 1 THEN s[1] ELSE Min2(s[1], min(Tail(s)))

(* delta_t of the first detector in insertion order. *)
refDelta == data[1][2].delta_t

n_analyze ==
    IF Truthy(_duration) /\ ~Truthy(_n_analyze)
    THEN IF data # <<>>
         THEN Ok(Some(round(_duration[1], refDelta)))
         ELSE Ok(None)
    ELSE IF data # <<>> /\ has_target
    THEN LET i0s == start_indices IN
         IF i0s.exc # "" THEN Raise(i0s.exc)
         ELSE Ok(Some(min([i \in 1..Len(data) |->
                             ilocLen(data[i][2], Get(i0s.val, data[i][1]),
                                     data[i][2].n)])))
    ELSE Ok(_n_analyze)

duration ==
    IF Truthy(_n_analyze) /\ ~Truthy(_duration)
    THEN IF data # <<>> THEN Some(_n_analyze[1] * refDelta) ELSE None
    ELSE _duration

(* The slice d.iloc[i0 : i0 + n_analyze] of every detector, as a series. *)
analysis_data ==
    IF start_indices.exc # "" THEN Raise(start_indices.exc)
    ELSE IF data = <<>> THEN Ok(<<>>)
    ELSE IF ~has_target THEN Raise("KeyError")
    ELSE IF n_analyze.exc # "" THEN Raise(n_analyze.exc)
    ELSE IF n_analyze.val = None THEN Raise("TypeError")
    ELSE Ok([i \in 1..Len(data) |->
               LET d == data[i][2]
                   i0 == Get(start_indices.val, data[i][1])
               IN  <<data[i][1],
                     Series(time(d, i0),
                            ilocLen(d, i0, i0 + n_analyze.val[1]),
                            d.delta_t)>>])

----------------------------------------------------------------------------
(* set_target.  The arguments are a record a with fields t0, ra, dec, psi, *)
(* delays, antenna_patterns, duration, n_analyze.                          *)

(* The loop over self.data.items() from item i on; st and ap are the       *)
(* mappings written so far.  A lal call on a None sky angle raises, and    *)
(* what the loop wrote before stays written.                               *)
(* Mutant of resolve: a passed delay or antenna pattern is used on every   *)
(* model and for every detector key.                                       *)
RECURSIVE resolveOverrideFirst(_, _, _, _)
resolveOverrideFirst(a, i, st, ap) ==
    IF i > Len(data) THEN [exc |-> "", start_times |-> st, antenna_patterns |-> ap]
    ELSE LET ifo == data[i][1] IN
         IF ifo = NoneIfo \/ model = "ftau"
         THEN resolveOverrideFirst(a, i + 1,
                                   Put(st, ifo, a.t0[1] + GetOr(a.delays, ifo, 0)),
                                   Put(ap, ifo, GetOr(a.antenna_patterns, ifo, <<1, 1>>)))
         ELSE IF a.ra = None \/ a.dec = None \/ a.psi = None
         THEN [exc |-> "TypeError", start_times |-> st, antenna_patterns |-> ap]
         ELSE LET dt_ifo == GetOr(a.delays, ifo,
                                  TimeDelayFromEarthCenter(ifo, a.ra[1], a.dec[1], a.t0[1]))
                  fpfc == GetOr(a.antenna_patterns, ifo,
                                ComputeDetAMResponse(ifo, a.ra[1], a.dec[1], a.psi[1], a.t0[1]))
              IN  resolveOverrideFirst(a, i + 1, Put(st, ifo, a.t0[1] + dt_ifo),
                                       Put(ap, ifo, fpfc))

(* Mutant of resolve: the delay added to the start time already stored. *)
RECURSIVE resolveShift(_, _, _, _)
resolveShift(a, i, st, ap) ==
    IF i > Len(data) THEN [exc |-> "", start_times |-> st, antenna_patterns |-> ap]
    ELSE LET ifo == data[i][1] IN
         IF ifo = NoneIfo \/ model = "ftau"
         THEN resolveShift(a, i + 1, Put(st, ifo, a.t0[1] + 0), Put(ap, ifo, <<1, 1>>))
         ELSE IF a.ra = None \/ a.dec = None \/ a.psi = None
         THEN [exc |-> "TypeError", start_times |-> st, antenna_patterns |-> ap]
         ELSE LET dt_ifo == GetOr(a.delays, ifo,
                                  TimeDelayFromEarthCenter(ifo, a.ra[1], a.dec[1], a.t0[1]))
                  fpfc == GetOr(a.antenna_patterns, ifo,
                                ComputeDetAMResponse(ifo, a.ra[1], a.dec[1], a.psi[1], a.t0[1]))
              IN  resolveShift(a, i + 1, Put(st, ifo, GetOr(st, ifo, a.t0[1]) + dt_ifo),
                               Put(ap, ifo, fpfc))

RECURSIVE resolve(_, _, _, _)
resolve(a, i, st, ap) ==
    IF i > Len(data) THEN [exc |-> "", start_times |-> st, antenna_patterns |-> ap]
    ELSE LET ifo == data[i][1] IN
         IF ifo = NoneIfo \/ model = "ftau"
         THEN resolve(a, i + 1, Put(st, ifo, a.t0[1] + 0), Put(ap, ifo, <<1, 1>>))
         ELSE IF a.ra = None \/ a.dec = None \/ a.psi = None
         THEN [exc |-> "TypeError", start_times |-> st, antenna_patterns |-> ap]
         ELSE LET dt_ifo == GetOr(a.delays, ifo,
                                  TimeDelayFromEarthCenter(ifo, a.ra[1], a.dec[1], a.t0[1]))
                  fpfc == GetOr(a.antenna_patterns, ifo,
                                ComputeDetAMResponse(ifo, a.ra[1], a.dec[1], a.psi[1], a.t0[1]))
              IN  resolve(a, i + 1, Put(st, ifo, a.t0[1] + dt_ifo), Put(ap, ifo, fpfc))

Target(t0, ra, dec, psi) == [t0 |-> t0, ra |-> ra, dec |-> dec, psi |-> psi]

(* Mutant of set_target: the check for data is left out. *)
set_targetUnchecked(a) ==
    LET r == resolve(a, 1, start_times, antenna_patterns) IN
    [exc |-> IF a.t0 = None THEN "TypeError" ELSE r.exc,
     start_times |-> r.start_times,
     antenna_patterns |-> r.antenna_patterns,
     target |-> IF a.t0 = None \/ r.exc # "" THEN target
                ELSE Target(a.t0, a.ra, a.dec, a.psi),
     _duration |-> IF a.t0 # None /\ r.exc = "" /\ Truthy(a.duration)
                   THEN a.duration ELSE _duration,
     _n_analyze |-> IF a.t0 # None /\ r.exc = "" /\ ~Truthy(a.duration)
                       /\ Truthy(a.n_analyze)
                    THEN a.n_analyze ELSE _n_analyze]

(* The state set_target called with a leaves, and the exception it ends with (""    *)
(* when it returns).                                                       *)
set_target(a) ==
    LET same == [exc |-> "", start_times |-> start_times,
                 antenna_patterns |-> antenna_patterns, target |-> target,
                 _duration |-> _duration, _n_analyze |-> _n_analyze]
    IN  IF data = <<>> THEN [same EXCEPT !.exc = "ValueError"]
        ELSE IF a.t0 = None THEN [same EXCEPT !.exc = "TypeError"]
        ELSE LET r == resolve(a, 1, start_times, antenna_patterns) IN
             IF r.exc # ""
             THEN [same EXCEPT !.exc = r.exc,
                               !.start_times = r.start_times,
                               !.antenna_patterns = r.antenna_patterns]
             ELSE [exc |-> "",
                   start_times |-> r.start_times,
                   antenna_patterns |-> r.antenna_patterns,
                   target |-> Target(a.t0, a.ra, a.dec, a.psi),
                   _duration |-> IF Truthy(a.duration) THEN a.duration ELSE _duration,
                   _n_analyze |-> IF Truthy(a.duration) THEN _n_analyze
                                  ELSE IF Truthy(a.n_analyze) THEN a.n_analyze
                                  ELSE _n_analyze]

Args(t0, ra, dec, psi, delays, aps, dur, n) ==
    [t0 |-> t0, ra |-> ra, dec |-> dec, psi |-> psi, delays |-> delays,
     antenna_patterns |-> aps, duration |-> dur, n_analyze |-> n]

Write(r) ==
    /\ start_times' = r.start_times
    /\ antenna_patterns' = r.antenna_patterns
    /\ target' = r.target
    /\ _duration' = r._duration
    /\ _n_analyze' = r._n_analyze

SetTarget(argset) ==
    \E a \in argset :
        LET r == set_target(a) IN
        /\ Write(r)
        /\ last' = [op |-> "set_target", exc |-> r.exc, args |-> a, kws |-> <<>>,
                    out |-> <<>>]
        /\ given' = (given \/ a.duration # None \/ a.n_analyze # None)
        /\ UNCHANGED <<model, data, acfs, _n_modes, modes, _prior_settings,
                       result, prior>>

(* update_target: kws maps the given argument names of set_target to values;  *)
(* the current target, the duration and n_analyze properties and the       *)
(* antenna_patterns mapping fill in the rest.                              *)
update_target_args(kws) ==
    kws @@ [t0 |-> target.t0, ra |-> target.ra, dec |-> target.dec,
            psi |-> target.psi, delays |-> None,
            antenna_patterns |-> antenna_patterns,
            duration |-> duration, n_analyze |-> n_analyze.val]

UpdateTarget(kwset) ==
    \E kws \in kwset :
        /\ IF n_analyze.exc # ""
           THEN /\ UNCHANGED <<start_times, antenna_patterns, target, _duration, _n_analyze>>
                /\ last' = [op |-> "update_target", exc |-> n_analyze.exc,
                            args |-> update_target_args(kws), kws |-> kws,
                            out |-> <<>>]
           ELSE LET a == update_target_args(kws)
                    r == set_target(a)
                IN  /\ Write(r)
                    /\ last' = [op |-> "update_target", exc |-> r.exc,
                                args |-> a, kws |-> kws, out |-> <<>>]
        /\ given' = (given \/ (\E k \in DOMAIN kws : k \in {"duration", "n_analyze"} /\ kws[k] # None))
        /\ UNCHANGED <<model, data, acfs, _n_modes, modes, _prior_settings,
                       result, prior>>

----------------------------------------------------------------------------
(* Modes and prior options. *)

(* self._n_modes or len(self.modes) *)
n_modes ==
    IF Truthy(_n_modes) THEN Ok(_n_modes)
    ELSE IF modes = None THEN Raise("TypeError")
    ELSE Ok(Some(Len(modes[1])))

(* Values in units of 1/100. *)
_default_prior ==
    <<<<"A_scale", None>>, <<"drift_scale", Some(0)>>>> \o
    (IF model = "ftau"
     THEN <<<<"f_max", None>>, <<"f_min", None>>,
            <<"gamma_max", None>>, <<"gamma_min", None>>>>
     ELSE <<<<"perturb_f", Some(0)>>, <<"perturb_tau", Some(0)>>,
            <<"df_max", Some(50)>>, <<"dtau_max", Some(50)>>,
            <<"M_min", None>>, <<"M_max", None>>,
            <<"chi_min", Some(0)>>, <<"chi_max", Some(99)>>>> \o
          (IF model = "mchi"
           THEN <<<<"flat_A_ellip", Some(0)>>>>
           ELSE <<<<"cosi_min", Some(0 - 100)>>, <<"cosi_max", Some(100)>>,
                  <<"flat_A", Some(0)>>>>))

(* dict.update: the items of src assigned into d in order. *)
RECURSIVE update(_, _)
update(d, src) ==
    IF src = <<>> THEN d
    ELSE update(Put(d, src[1][1], src[1][2]), Tail(src))

(* Mutant of prior_settings: the defaults win over what was set. *)
prior_settingsDefaultsLast == update(_prior_settings, _default_prior)

prior_settings == update(_default_prior, _prior_settings)

valid_model_options == Keys(_default_prior)

(* str.lower on the option names used here. *)
lower(k) ==
    CASE k = "A_scale" -> "a_scale"
      [] k = "A_SCALE" -> "a_scale"
      [] k = "M_min" -> "m_min"
      [] k = "M_max" -> "m_max"
      [] k = "flat_A" -> "flat_a"
      [] k = "flat_A_ellip" -> "flat_a_ellip"
      [] OTHER -> k

(* valid_keys_low.index(k.lower()) *)
index(valid_keys, k) ==
    CHOOSE i \in 1..Len(valid_keys) :
        /\ lower(valid_keys[i]) = lower(k)
        /\ \A j \in 1..(i - 1) : lower(valid_keys[j]) # lower(k)

(* The loop of update_prior over the given options kws, in order. *)
RECURSIVE update_prior_loop(_, _)
update_prior_loop(ps, kws) ==
    IF kws = <<>> THEN [exc |-> "", _prior_settings |-> ps, key |-> ""]
    ELSE LET k == kws[1][1]
             valid_keys == valid_model_options
         IN  IF \E i \in 1..Len(valid_keys) : lower(valid_keys[i]) = lower(k)
             THEN update_prior_loop(Put(ps, valid_keys[index(valid_keys, k)], kws[1][2]),
                                    Tail(kws))
             ELSE [exc |-> "ValueError", _prior_settings |-> ps, key |-> k]

update_prior(kws) == update_prior_loop(_prior_settings, kws)

UpdatePrior(kwsset) ==
    \E kws \in kwsset :
        LET r == update_prior(kws) IN
        /\ _prior_settings' = r._prior_settings
        /\ last' = [op |-> "update_prior", exc |-> r.exc, args |-> <<>>,
                    kws |-> kws, out |-> <<r.key>>]
        /\ UNCHANGED <<model, data, acfs, start_times, antenna_patterns, target,
                       _duration, _n_analyze, _n_modes, modes, result, prior, given>>

(* set_modes(modes): modes is a count [count |-> k] or a list of           *)
(* (p, s, l, m, n) tuples [list |-> l].                                    *)
ModeCount(k) == [count |-> k]
ModeList(l) == [list |-> l]

(* qnms.construct_mode_list on a list of (p, s, l, m, n) tuples. *)
construct_mode_list(l) == l

(* Mutant of set_modes: a count stores an empty mode list, not None. *)
set_modesEmptyList(m, arg) ==
    IF "count" \in DOMAIN arg
    THEN [exc |-> "", _n_modes |-> Some(arg.count), modes |-> Some(<<>>)]
    ELSE LET l == construct_mode_list(arg.list)
             ls_valid == \A i \in 1..Len(l) : l[i][3] = 2
             ms_valid == \A i \in 1..Len(l) : Abs(l[i][4]) = 2
         IN  [exc |-> IF m = "mchi_aligned" /\ ~(ls_valid /\ ms_valid)
                      THEN "ValueError" ELSE "",
              _n_modes |-> None, modes |-> Some(l)]

(* Mutant of set_modes: m is compared without abs. *)
set_modesNoAbs(m, arg) ==
    IF "count" \in DOMAIN arg
    THEN [exc |-> "", _n_modes |-> Some(arg.count), modes |-> None]
    ELSE LET l == construct_mode_list(arg.list)
             ls_valid == \A i \in 1..Len(l) : l[i][3] = 2
             ms_valid == \A i \in 1..Len(l) : l[i][4] = 2
         IN  [exc |-> IF m = "mchi_aligned" /\ ~(ls_valid /\ ms_valid)
                      THEN "ValueError" ELSE "",
              _n_modes |-> None, modes |-> Some(l)]

(* The _n_modes and modes that set_modes leaves on model m, and its        *)
(* exception.                                                              *)
set_modes(m, arg) ==
    IF "count" \in DOMAIN arg
    THEN [exc |-> "", _n_modes |-> Some(arg.count), modes |-> None]
    ELSE LET l == construct_mode_list(arg.list)
             ls_valid == \A i \in 1..Len(l) : l[i][3] = 2
             ms_valid == \A i \in 1..Len(l) : Abs(l[i][4]) = 2
         IN  [exc |-> IF m = "mchi_aligned" /\ ~(ls_valid /\ ms_valid)
                      THEN "ValueError" ELSE "",
              _n_modes |-> None, modes |-> Some(l)]

SetModes(modeargs) ==
    \E arg \in modeargs :
        LET r == set_modes(model, arg) IN
        /\ _n_modes' = r._n_modes
        /\ modes' = r.modes
        /\ last' = [op |-> "set_modes", exc |-> r.exc, args |-> arg,
                    kws |-> <<>>, out |-> <<>>]
        /\ UNCHANGED <<model, data, acfs, start_times, antenna_patterns, target,
                       _duration, _n_analyze, _prior_settings, result, prior, given>>

(* set_tone_sequence(nmode, l=l, m=m) *)
SetToneSequence(nmodes, ls, ms) ==
    \E nmode \in nmodes, l \in ls, m \in ms :
        LET indexes == [n \in 1..nmode |-> <<1, 0 - 2, l, m, n - 1>>]
            r == set_modes(model, ModeList(indexes))
        IN  /\ _n_modes' = r._n_modes
            /\ modes' = r.modes
            /\ last' = [op |-> "set_modes", exc |-> r.exc, args |-> ModeList(indexes),
                        kws |-> <<>>, out |-> <<>>]
            /\ UNCHANGED <<model, data, acfs, start_times, antenna_patterns, target,
                           _duration, _n_analyze, _prior_settings, result, prior, given>>

----------------------------------------------------------------------------
(* ACFs. *)

(* Data.get_acf: the ACF estimated from series d of detector ifo; of and   *)
(* src record the detector and the series it was estimated from.           *)
get_acf(ifo, d) == [delta_t |-> d.delta_t, n |-> d.n, of |-> ifo, src |-> d]

(* An ACF [delta_t, n] passed to add_data together with series d of ifo. *)
supplied(ifo, d, acf) == [delta_t |-> acf.delta_t, n |-> acf.n, of |-> ifo, src |-> d]

RECURSIVE compute_loop(_, _, _, _)
compute_loop(ac, names, i, shared_acf) ==
    IF i > Len(names) THEN [exc |-> "", acfs |-> ac]
    ELSE IF shared_acf # None
    THEN compute_loop(Put(ac, names[i], shared_acf[1]), names, i + 1, shared_acf)
    ELSE IF ~Has(data, names[i]) THEN [exc |-> "KeyError", acfs |-> ac]
    ELSE compute_loop(Put(ac, names[i], get_acf(names[i], Get(data, names[i]))),
                      names, i + 1, shared_acf)

(* compute_acfs(shared, ifos): the ACF mapping it leaves and its exception. *)
compute_acfs(shared, ifos_arg) ==
    LET names == IF ifos_arg = None THEN ifos ELSE ifos_arg[1] IN
    IF Len(names) = 0 THEN [exc |-> "ValueError", acfs |-> acfs]
    ELSE IF shared /\ ~Has(data, names[1]) THEN [exc |-> "KeyError", acfs |-> acfs]
    ELSE compute_loop(acfs, names, 1,
                      IF shared THEN Some(get_acf(names[1], Get(data, names[1])))
                      ELSE None)

ComputeAcfs(ifosets) ==
    \E shared \in BOOLEAN, ifos_arg \in ifosets :
        LET r == compute_acfs(shared, ifos_arg) IN
        /\ acfs' = r.acfs
        /\ last' = [op |-> "compute_acfs", exc |-> r.exc, args |-> <<>>,
                    kws |-> <<>>, out |-> <<>>]
        /\ UNCHANGED <<model, data, start_times, antenna_patterns, target,
                       _duration, _n_analyze, _n_modes, modes, _prior_settings,
                       result, prior, given>>

----------------------------------------------------------------------------
(* model_input: the payload (a dict, every value wrapped as <<v>> or None) *)
(* or the exception, and the ACF mapping the read leaves.                  *)

FirstNone(d) == d[CHOOSE i \in 1..Len(d) : d[i][2] = None /\ \A j \in 1..(i - 1) : d[j][2] # None][1]

(* Mutant of auto_acfs: ACFs are computed whenever a detector lacks one. *)
auto_acfsMissing ==
    IF acfs = <<>> \/ \E i \in 1..Len(ifos) : ~Has(acfs, ifos[i])
    THEN compute_acfs(FALSE, None)
    ELSE [exc |-> "", acfs |-> acfs]

(* if not self.acfs: self.compute_acfs() *)
auto_acfs ==
    IF acfs = <<>> THEN compute_acfs(FALSE, None)
    ELSE [exc |-> "", acfs |-> acfs]

model_input ==
    LET auto == auto_acfs
        ac == auto.acfs
        data_dict == analysis_data
    IN  IF auto.exc # "" THEN [exc |-> auto.exc, val |-> None, acfs |-> ac, key |-> ""]
        ELSE IF data_dict.exc # "" THEN [exc |-> data_dict.exc, val |-> None, acfs |-> ac, key |-> ""]
        ELSE IF n_modes.exc # "" THEN [exc |-> n_modes.exc, val |-> None, acfs |-> ac, key |-> ""]
        ELSE IF ("mchi" = model \/ "mchi_aligned" = model) /\ modes = None
        THEN [exc |-> "TypeError", val |-> None, acfs |-> ac, key |-> ""]
        ELSE LET nsamp == n_analyze.val[1]
                 base == <<<<"nsamp", Some(nsamp)>>,
                           <<"nmode", n_modes.val>>,
                           <<"nobs", Some(Len(data_dict.val))>>,
                           <<"t0", Some(Values(start_times))>>,
                           <<"times", Some(Values(data_dict.val))>>,
                           <<"strain", Some(Values(data_dict.val))>>,
                           <<"L", Some([i \in 1..Len(ac) |->
                                   [ac[i][2] EXCEPT !.n = Min2(ac[i][2].n, nsamp)]])>>,
                           <<"FpFc", Some(Values(antenna_patterns))>>,
                           <<"dt_min", Some(0 - 1)>>,
                           <<"dt_max", Some(1)>>>>
                 coeffs == IF model = "ftau" THEN <<>>
                           ELSE <<<<"f_coeffs", Some(modes[1])>>,
                                  <<"g_coeffs", Some(modes[1])>>>>
                 stan_data == update(base \o coeffs, prior_settings)
             IN  IF \E i \in 1..Len(stan_data) : stan_data[i][2] = None
                 THEN [exc |-> "ValueError", val |-> None, acfs |-> ac,
                       key |-> FirstNone(stan_data)]
                 ELSE [exc |-> "", val |-> Some(stan_data), acfs |-> ac, key |-> ""]

(* Mutant of ModelInput: the merged prior options are stored back. *)
ModelInputStoring ==
    LET r == model_input IN
    /\ acfs' = r.acfs
    /\ _prior_settings' = prior_settings
    /\ last' = [op |-> "model_input", exc |-> r.exc, args |-> <<>>,
                kws |-> <<>>, out |-> IF r.exc = "" THEN r.val ELSE <<r.key>>]
    /\ UNCHANGED <<model, data, start_times, antenna_patterns, target,
                   _duration, _n_analyze, _n_modes, modes,
                   result, prior, given>>

ModelInput ==
    LET r == model_input IN
    /\ acfs' = r.acfs
    /\ last' = [op |-> "model_input", exc |-> r.exc, args |-> <<>>,
                kws |-> <<>>, out |-> IF r.exc = "" THEN r.val ELSE <<r.key>>]
    /\ UNCHANGED <<model, data, start_times, antenna_patterns, target,
                   _duration, _n_analyze, _n_modes, modes, _prior_settings,
                   result, prior, given>>

----------------------------------------------------------------------------
(* add_data(data, ifo=ifo, acf=acf) *)

AddData(names, seriesset, acfset) ==
    \E ifo \in names, d \in seriesset, acf \in acfset :
        /\ data' = Put(data, ifo, d)
        /\ acfs' = IF acf # None THEN Put(acfs, ifo, supplied(ifo, d, acf[1]))
                    ELSE acfs
        /\ last' = [op |-> "add_data", exc |-> "", args |-> <<>>,
                    kws |-> <<>>, out |-> <<>>]
        /\ UNCHANGED <<model, start_times, antenna_patterns, target,
                       _duration, _n_analyze, _n_modes, modes, _prior_settings,
                       result, prior, given>>

----------------------------------------------------------------------------
(* condition_data(ds=ds) *)

(* Data.condition(t0=t0, ds=ds): a new series that keeps every ds-th       *)
(* sample of d, the sample nearest to t0 among them.                       *)
condition(d, t0, ds) ==
    LET r == argmin(d, t0) % ds IN
    [first |-> time(d, r), n |-> (d.n - r + ds - 1) \div ds,
     delta_t |-> ds * d.delta_t, conditioned |-> TRUE]

RECURSIVE condition_loop(_, _, _)
condition_loop(new_data, i, ds) ==
    IF i > Len(data) THEN [exc |-> "", data |-> new_data]
    ELSE LET k == data[i][1] IN
         IF ~Has(start_times, k) THEN [exc |-> "KeyError", data |-> new_data]
         ELSE condition_loop(Put(new_data, k, condition(data[i][2], Get(start_times, k), ds)),
                             i + 1, ds)

(* Mutant of condition_data: the ACFs are kept. *)
condition_dataKeep(ds) ==
    LET r == condition_loop(<<>>, 1, ds) IN
    IF r.exc # "" THEN [exc |-> r.exc, data |-> data, acfs |-> acfs]
    ELSE [exc |-> "", data |-> r.data, acfs |-> acfs]

(* The data and ACF mappings condition_data leaves, and its exception. *)
condition_data(ds) ==
    LET r == condition_loop(<<>>, 1, ds) IN
    IF r.exc # "" THEN [exc |-> r.exc, data |-> data, acfs |-> acfs]
    ELSE [exc |-> "", data |-> r.data, acfs |-> <<>>]

ConditionData(factors) ==
    \E ds \in factors :
        LET r == condition_data(ds) IN
        /\ \A i \in 1..Len(r.data) : r.data[i][2].delta_t <= MaxDelta
        /\ data' = r.data
        /\ acfs' = r.acfs
        /\ last' = [op |-> "condition_data", exc |-> r.exc,
                    args |-> [data |-> Keys(data), acfs |-> Keys(acfs)],
                    kws |-> <<>>, out |-> <<>>]
        /\ UNCHANGED <<model, start_times, antenna_patterns, target,
                       _duration, _n_analyze, _n_modes, modes, _prior_settings,
                       result, prior, given>>

----------------------------------------------------------------------------
(* inject(), template evaluated per detector *)

(* self.data[i] + h: the series with a signal added. *)
plus(d) == [injected |-> TRUE] @@ d

Inject ==
    LET missing == \E i \in 1..Len(data) :
                       \/ ~Has(start_times, data[i][1])
                       \/ ~Has(antenna_patterns, data[i][1])
        exc == IF missing THEN "KeyError"
               ELSE IF data = <<>> THEN "UnboundLocalError"
               ELSE ""
    IN  /\ data' = IF exc # "" THEN data
                   ELSE [i \in 1..Len(data) |-> <<data[i][1], plus(data[i][2])>>]
        /\ last' = [op |-> "inject", exc |-> exc, args |-> <<>>,
                    kws |-> <<>>, out |-> <<>>]
        /\ UNCHANGED <<model, acfs, start_times, antenna_patterns, target,
                       _duration, _n_analyze, _n_modes, modes, _prior_settings,
                       result, prior, given>>

----------------------------------------------------------------------------
(* run(prior=prior) *)

(* The delta_t check of run: the exception it raises and what the message  *)
(* names (the detector, the ACF delta_t, the data delta_t).                *)
RECURSIVE check_delta_t(_)
check_delta_t(i) ==
    IF i > Len(ifos) THEN [exc |-> "", msg |-> <<>>]
    ELSE LET ifo == ifos[i] IN
         IF ~Has(acfs, ifo) THEN [exc |-> "KeyError", msg |-> <<ifo>>]
         ELSE IF Get(acfs, ifo).delta_t # Get(data, ifo).delta_t
         THEN [exc |-> "ValueError",
               msg |-> <<ifo, Get(acfs, ifo).delta_t, Get(data, ifo).delta_t>>]
         ELSE check_delta_t(i + 1)

(* Mutant of check_delta_t: the check is left out. *)
run_checkNone == [exc |-> "", msg |-> <<>>]

run_check == check_delta_t(1)

(* The sampler's output turned into inference data. *)
InferenceData == Some(1)

Run ==
    \E only_prior \in BOOLEAN :
        LET c == run_check
            r == model_input
        IN  IF c.exc # ""
            THEN /\ last' = [op |-> "run", exc |-> c.exc, args |-> <<only_prior>>,
                             kws |-> <<>>, out |-> c.msg]
                 /\ UNCHANGED <<acfs, result, prior>>
                 /\ UNCHANGED <<model, data, start_times, antenna_patterns, target,
                                _duration, _n_analyze, _n_modes, modes,
                                _prior_settings, given>>
            ELSE /\ acfs' = r.acfs
                 /\ last' = [op |-> "run", exc |-> r.exc, args |-> <<only_prior>>,
                             kws |-> <<>>,
                             out |-> IF r.exc = "" THEN r.val ELSE <<r.key>>]
                 /\ prior' = IF r.exc = "" /\ only_prior THEN InferenceData ELSE prior
                 /\ result' = IF r.exc = "" /\ ~only_prior THEN InferenceData ELSE result
                 /\ UNCHANGED <<model, data, start_times, antenna_patterns, target,
                                _duration, _n_analyze, _n_modes, modes,
                                _prior_settings, given>>

----------------------------------------------------------------------------
(* Construction. *)

M220 == <<1, 0 - 2, 2, 2, 0>>

(* Prior options that leave no required option of model m unset. *)
FullPrior(m) ==
    IF m = "ftau"
    THEN <<<<"A_scale", Some(1)>>, <<"f_max", Some(2)>>, <<"f_min", Some(1)>>,
           <<"gamma_max", Some(2)>>, <<"gamma_min", Some(1)>>>>
    ELSE <<<<"A_scale", Some(1)>>, <<"M_min", Some(1)>>, <<"M_max", Some(2)>>>>

(* Fit(m, modes=[(1,-2,2,2,0)], **FullPrior(m)) for a model m of models. *)
Construct(models) ==
    /\ model \in models
    /\ data = <<>>
    /\ acfs = <<>>
    /\ start_times = <<>>
    /\ antenna_patterns = <<>>
    /\ target = Target(None, None, None, None)
    /\ _duration = None
    /\ _n_analyze = None
    /\ _n_modes = None
    /\ modes = Some(<<M220>>)
    /\ _prior_settings = FullPrior(model)
    /\ result = None
    /\ prior = None
    /\ last = [op |-> "__init__", exc |-> "", args |-> <<>>, kws |-> <<>>,
               out |-> <<>>]
    /\ given = FALSE

(* Fit(m, modes=arg, **kws) for a model of models, an arg of modeargs and  *)
(* options kws of kwsset, when the constructor returns.                    *)
ConstructWith(models, modeargs, kwsset) ==
    /\ model \in models
    /\ data = <<>>
    /\ acfs = <<>>
    /\ start_times = <<>>
    /\ antenna_patterns = <<>>
    /\ target = Target(None, None, None, None)
    /\ _duration = None
    /\ _n_analyze = None
    /\ result = None
    /\ prior = None
    /\ given = FALSE
    /\ \E arg \in modeargs, kws \in kwsset :
           LET r == [exc |-> set_modes(model, arg).exc,
                     _n_modes |-> set_modes(model, arg)._n_modes,
                     modes |-> set_modes(model, arg).modes]
           IN  /\ r.exc = ""
               /\ _n_modes = r._n_modes
               /\ modes = r.modes
               /\ _prior_settings = kws
               /\ last = [op |-> "__init__", exc |-> "", args |-> arg, kws |-> kws,
                          out |-> <<>>]

----------------------------------------------------------------------------
(* The analysis window: series of different lengths and spacings, target   *)
(* times, durations and counts; one sky location, no per-detector          *)
(* overrides.                                                              *)

Ifos == {"H1", "L1"}

SeriesSet == {Series(0, n, dt) : n \in 2..MaxLen, dt \in 1..2}

Durations == {Some(x) : x \in 1..MaxDuration}
Counts == {Some(x) : x \in 1..MaxCount}

(* duration and n_analyze as a call gives them: neither, one, or both. *)
WindowArgs ==
    {<<None, None>>} \cup {<<x, None>> : x \in Durations}
    \cup {<<None, x>> : x \in Counts}
    \cup {<<Some(MaxDuration), Some(1)>>}

WindowTargetArgs ==
    {Args(Some(t0), Some(1), Some(0), Some(0), None, None, w[1], w[2]) :
        t0 \in 1..MaxT0, w \in WindowArgs}

WindowKws ==
    {<<>>, "duration" :> Some(MaxDuration), "n_analyze" :> Some(MaxCount)}

InitWindow == Construct({"mchi"})

NextWindow ==
    \/ AddData(Ifos, SeriesSet, {None})
    \/ SetTarget(WindowTargetArgs)
    \/ UpdateTarget(WindowKws)

SpecWindow == InitWindow /\ [][NextWindow]_vars

----------------------------------------------------------------------------
(* The target: a model without and one with sky dependence, sky locations *)
(* given or not, per-detector delays and antenna patterns, a detector      *)
(* without a name; one series per detector.                                *)

SkyArgs == {<<None, None, None>>, <<Some(0), Some(0), Some(0)>>}

OverrideArgs ==
    {<<None, None>>, <<<<<<"H1", 2>>>>, None>>, <<None, <<<<"H1", <<0, 0>>>>>>>>}

SkyTargetArgs ==
    {Args(Some(t0), sky[1], sky[2], sky[3], ov[1], ov[2], w[1], w[2]) :
        t0 \in 1..2, sky \in SkyArgs, ov \in OverrideArgs,
        w \in {<<None, None>>, <<Some(MaxDuration), None>>}}

SkyKws ==
    {<<>>, "t0" :> Some(2), "ra" :> Some(1), "psi" :> Some(1),
     "antenna_patterns" :> <<<<"H1", <<0, 0>>>>>>}

InitSky == Construct({"ftau", "mchi"})

NextSky ==
    \/ AddData({"H1", NoneIfo}, {Series(0, MaxLen, 1)}, {None})
    \/ SetTarget(SkyTargetArgs)
    \/ UpdateTarget(SkyKws)

SpecSky == InitSky /\ [][NextSky]_vars

----------------------------------------------------------------------------
(* The payload: model_input read between add_data and set_target calls.    *)

PayloadSeries == {Series(0, MaxLen, 1), Series(0, MaxLen - 1, 2)}

PayloadTargetArgs ==
    {Args(Some(t0), Some(1), Some(0), Some(0), None, None, w[1], w[2]) :
        t0 \in 1..MaxT0,
        w \in {<<None, None>>, <<Some(MaxDuration), None>>, <<None, Some(1)>>}}

InitPayload == Construct({"ftau", "mchi"})

NextPayload ==
    \/ AddData(Ifos, PayloadSeries, {None})
    \/ SetTarget(PayloadTargetArgs)
    \/ ComputeAcfs({None})
    \/ ModelInput

SpecPayload == InitPayload /\ [][NextPayload]_vars

(* ACF family: ACFs are supplied, computed, and used by model_input and run. *)
AcfSeries == {Series(0, MaxLen, dt) : dt \in 1..2}
AcfSupplied == {None} \cup {Some([delta_t |-> dt, n |-> MaxLen]) : dt \in 1..2}
AcfTargetArgs == {Args(Some(0), Some(1), Some(0), Some(0), None, None, None, None)}
AcfIfos == {None, Some(<<"L1">>)}

InitAcf == Construct({"ftau"})

NextAcf ==
    \/ AddData(Ifos, AcfSeries, AcfSupplied)
    \/ SetTarget(AcfTargetArgs)
    \/ ComputeAcfs(AcfIfos)
    \/ ModelInput
    \/ Run

SpecAcf == InitAcf /\ [][NextAcf]_vars

(* Replacement family: series are replaced by add_data, condition_data and *)
(* inject while ACFs are stored.                                           *)
ReplaceSeries == {Series(0, MaxLen, 1)}
Factors == {1, 2}

InitReplace == Construct({"ftau"})

NextReplace ==
    \/ AddData(Ifos, ReplaceSeries, {None})
    \/ SetTarget(AcfTargetArgs)
    \/ ConditionData(Factors)
    \/ Inject
    \/ ComputeAcfs({None})
    \/ ModelInput

SpecReplace == InitReplace /\ [][NextReplace]_vars

(* Modes family: mode counts and mode lists are set on every model and the *)
(* payload is read.                                                        *)
ModeArgs ==
    {ModeCount(k) : k \in 1..MaxCount}
    \cup {ModeList(l) : l \in {<<M220>>, <<M220, <<1, 0 - 2, 2, 0 - 2, 1>>>>,
                               <<M220, <<1, 0 - 2, 3, 2, 0>>>>,
                               <<<<1, 0 - 2, 2, 1, 0>>>>}}

ConfigTargetArgs == {Args(Some(1), Some(1), Some(0), Some(0), None, None, None, None)}

InitModes ==
    /\ ConstructWith(MODELS, ModeArgs, {FullPrior(m) : m \in MODELS})
    /\ _prior_settings = FullPrior(model)

NextModes ==
    \/ SetModes(ModeArgs)
    \/ SetToneSequence({MaxCount}, {2, 3}, {2})
    \/ AddData({"H1"}, {Series(0, MaxLen, 1)}, {None})
    \/ SetTarget(ConfigTargetArgs)
    \/ ModelInput

SpecModes == InitModes /\ [][NextModes]_vars

(* Prior family: options are passed to the constructor and to update_prior *)
(* as a caller may pass them: a required one as None, a name in another    *)
(* case, a name no model has, names only some models have.                 *)
PriorKws ==
    {<<<<"A_scale", None>>>>,
     <<<<"A_SCALE", Some(2)>>>>,
     <<<<"drift_scale", Some(1)>>, <<"foo", Some(1)>>>>,
     <<<<"M_min", Some(1)>>, <<"M_max", Some(2)>>>>,
     <<<<"f_min", Some(1)>>, <<"f_max", Some(2)>>,
       <<"gamma_min", Some(1)>>, <<"gamma_max", Some(2)>>>>}

InitKws == {<<>>, <<<<"A_scale", None>>>>, <<<<"foo", Some(1)>>>>}

InitPrior == ConstructWith({"ftau", "mchi"}, {ModeList(<<M220>>)}, InitKws)

NextPrior ==
    \/ UpdatePrior(PriorKws)
    \/ AddData({"H1"}, {Series(0, MaxLen, 1)}, {None})
    \/ SetTarget(ConfigTargetArgs)
    \/ ModelInput

SpecPrior == InitPrior /\ [][NextPrior]_vars

----------------------------------------------------------------------------
(* Properties. *)

Returned(op) == last.op = op /\ last.exc = ""

(* Samples of the i-th detector from its start index to its end. *)
Remaining(i) == data[i][2].n - Get(start_indices.val, data[i][1])

(* n is x / y rounded to the nearest integer, a half to the even one. *)
IsRounded(n, x, y) ==
    /\ 2 * n * y - y <= 2 * x
    /\ 2 * x <= 2 * n * y + y
    /\ (2 * Abs(n * y - x) = y => n % 2 = 0)

(* n is the least Remaining(i) over the detectors. *)
IsShortest(n) ==
    /\ \E i \in 1..Len(data) : n = Remaining(i)
    /\ \A i \in 1..Len(data) : n <= Remaining(i)

(* C1: whenever reading analysis_data does not raise, the slice of every   *)
(* detector has n_analyze samples.                                         *)
C1_EqualSampleCounts ==
    analysis_data.exc = "" =>
        \A i \in 1..Len(analysis_data.val) :
            analysis_data.val[i][2].n = n_analyze.val[1]

(* C2: after set_target(..., n_analyze=N) with no duration ever set,       *)
(* n_analyze reads N.                                                      *)
C2_CountReturned ==
    (/\ Returned("set_target")
     /\ Truthy(last.args.n_analyze)
     /\ last.args.duration = None
     /\ _duration = None)
    => n_analyze = Ok(last.args.n_analyze)

(* C3: after set_target(..., duration=D) on a Fit with no stored sample    *)
(* count, n_analyze reads round(D / dt) for the dt of the first detector   *)
(* in insertion order.                                                     *)
C3_DurationRounded ==
    (/\ Returned("set_target")
     /\ Truthy(last.args.duration)
     /\ _n_analyze = None)
    => /\ n_analyze.exc = ""
       /\ n_analyze.val # None
       /\ IsRounded(n_analyze.val[1], last.args.duration[1], data[1][2].delta_t)

(* C3 happens: two detectors of different spacing, the duration an odd     *)
(* number of half samples of the first and not of the second.              *)
C3_Witness ==
    /\ Returned("set_target")
    /\ Truthy(last.args.duration)
    /\ _n_analyze = None
    /\ Len(data) = 2
    /\ data[1][2].delta_t = 2
    /\ data[2][2].delta_t = 1
    /\ 2 * (last.args.duration[1] % 2) = 2
    /\ n_analyze = Ok(Some(2))

(* C4: a duration was set earlier; after set_target(..., n_analyze=N)      *)
(* n_analyze reads N.                                                      *)
C4_CountOverridesDuration ==
    (/\ Returned("set_target")
     /\ Truthy(last.args.n_analyze)
     /\ last.args.duration = None
     /\ _duration # None)
    => n_analyze = Ok(last.args.n_analyze)

(* C5: a count was set earlier; after set_target(..., duration=D)          *)
(* n_analyze reads round(D / dt) of the first detector.                    *)
C5_DurationOverridesCount ==
    (/\ Returned("set_target")
     /\ Truthy(last.args.duration)
     /\ _n_analyze # None)
    => /\ n_analyze.exc = ""
       /\ n_analyze.val # None
       /\ IsRounded(n_analyze.val[1], last.args.duration[1], data[1][2].delta_t)

C7_FallbackAfterPlainCall ==
    (/\ Returned("set_target")
     /\ last.args.duration = None
     /\ last.args.n_analyze = None)
    => /\ n_analyze.exc = ""
       /\ n_analyze.val # None
       /\ IsShortest(n_analyze.val[1])

(* C8: a payload returned by model_input has nsamp no larger than the      *)
(* samples left after the start index in any detector.                     *)
C8_PayloadWithinSeries ==
    Returned("model_input") =>
        \A i \in 1..Len(data) : Get(last.out[1], "nsamp")[1] <= Remaining(i)

(* C9: right after set_target(a), a second set_target(a) ends the same way *)
(* and leaves target, start_times, antenna_patterns and the stored         *)
(* duration and count as they are (so the start indices, n_analyze and     *)
(* analysis_data read from them are the same too).                         *)
C9_SetTargetIdempotent ==
    last.op = "set_target" =>
        set_target(last.args) =
            [exc |-> last.exc, start_times |-> start_times,
             antenna_patterns |-> antenna_patterns, target |-> target,
             _duration |-> _duration, _n_analyze |-> _n_analyze]

(* C9 happens: a returned call on two detectors, with a sky location, a    *)
(* per-detector delay and a duration.                                      *)
C9_Witness ==
    /\ Returned("set_target")
    /\ model = "mchi"
    /\ Len(data) = 2
    /\ last.args.delays # None
    /\ Truthy(last.args.duration)
    /\ Get(start_times, "H1") = last.args.t0[1] + 2

(* What the stored target gives detector ifo when no override is passed. *)
DerivedDelay(ifo) ==
    IF ifo = NoneIfo \/ model = "ftau" THEN 0
    ELSE TimeDelayFromEarthCenter(ifo, target.ra[1], target.dec[1], target.t0[1])
DerivedPattern(ifo) ==
    IF ifo = NoneIfo \/ model = "ftau" THEN <<1, 1>>
    ELSE ComputeDetAMResponse(ifo, target.ra[1], target.dec[1], target.psi[1],
                              target.t0[1])

(* The per-detector values the caller passed in the last call. *)
PassedDelays ==
    IF last.op = "set_target" THEN last.args.delays
    ELSE IF "delays" \in DOMAIN last.kws THEN last.kws["delays"] ELSE None
PassedPatterns ==
    IF last.op = "set_target" THEN last.args.antenna_patterns
    ELSE IF "antenna_patterns" \in DOMAIN last.kws
    THEN last.kws["antenna_patterns"] ELSE None

(* C10: after a set_target or update_target call that returns, every       *)
(* detector's start time and antenna pattern are the ones derived from the *)
(* stored target, except where the caller passed an override in that call. *)
C10_DerivedFromTarget ==
    (Returned("set_target") \/ Returned("update_target")) =>
        \A i \in 1..Len(data) :
            LET ifo == data[i][1] IN
            /\ Has(start_times, ifo) /\ Has(antenna_patterns, ifo)
            /\ \/ Has(PassedDelays, ifo)
               \/ Get(start_times, ifo) = target.t0[1] + DerivedDelay(ifo)
            /\ \/ Has(PassedPatterns, ifo)
               \/ Get(antenna_patterns, ifo) = DerivedPattern(ifo)

(* C11: update_target with no overrides is a no-op on what can be          *)
(* observed: from a state with a target it leaves target, start_times and  *)
(* antenna_patterns as they were, and the duration and n_analyze getters   *)
(* read the same values after the call as before it.                       *)
C11_PlainUpdateIsNoOp ==
    [][(/\ last'.op = "update_target"
        /\ DOMAIN last'.kws = {}
        /\ has_target)
       => (/\ target' = target
           /\ start_times' = start_times
           /\ antenna_patterns' = antenna_patterns
           /\ duration' = duration
           /\ n_analyze' = n_analyze)]_vars

(* The ACF mapping that holds, for every detector, the ACF estimated from  *)
(* the series the detector has now.                                        *)
FreshAcfs == [i \in 1..Len(data) |-> <<data[i][1], get_acf(data[i][1], data[i][2])>>]

(* C12: when condition_data has returned, the ACF mapping is empty, the    *)
(* data mapping has the same detectors in the same order, every series in  *)
(* it is a new conditioned one, and the next model_input computes every    *)
(* ACF from the conditioned series.                                        *)
C12_ConditionClearsAcfs ==
    Returned("condition_data") =>
        /\ acfs = <<>>
        /\ Keys(data) = last.args.data
        /\ \A i \in 1..Len(data) : "conditioned" \in DOMAIN data[i][2]
        /\ data # <<>> => model_input.acfs = FreshAcfs

C12_Witness ==
    /\ Returned("condition_data")
    /\ Len(data) = 2
    /\ last.args.acfs # <<>>
    /\ \E i \in 1..2 : data[i][2].delta_t = 2

(* C13: an ACF stored for a detector is not used by model_input once the   *)
(* detector's series has been replaced: every whitening factor of a        *)
(* returned payload comes from an ACF of the series its detector has now.  *)
C13_NoStaleAcfUsed ==
    Returned("model_input") =>
        LET L == Get(last.out[1], "L")[1] IN
        \A i \in 1..Len(L) :
            Has(data, L[i].of) => L[i].src = Get(data, L[i].of)

(* Detector ifo has an ACF whose delta_t differs from its series'. *)
Mismatched(ifo) ==
    Has(acfs, ifo) /\ Has(data, ifo) /\ Get(acfs, ifo).delta_t # Get(data, ifo).delta_t

(* C14 as stated: if some detector's ACF delta_t differs from its data     *)
(* delta_t, run raises an error naming such a detector and both its        *)
(* delta_t values, and leaves result, prior and the ACFs as they were.     *)
C14_RunNamesMismatch ==
    [][(last'.op = "run" /\ \E i \in 1..Len(ifos) : Mismatched(ifos[i]))
       => (/\ last'.exc = "ValueError"
           /\ Len(last'.out) = 3
           /\ Mismatched(last'.out[1])
           /\ last'.out[2] = Get(acfs, last'.out[1]).delta_t
           /\ last'.out[3] = Get(data, last'.out[1]).delta_t
           /\ result' = result /\ prior' = prior /\ acfs' = acfs)]_vars

(* The first detector, in the order of the data mapping, that has no ACF   *)
(* or a mismatched one; 0 when there is none.                              *)
FirstBad ==
    LET bad == {i \in 1..Len(ifos) : ~Has(acfs, ifos[i]) \/ Mismatched(ifos[i])}
    IN  IF bad = {} THEN 0 ELSE CHOOSE i \in bad : \A j \in bad : i <= j

(* C14 as the code has it: if some detector's ACF delta_t differs from its *)
(* data delta_t, run raises before model_input is read and leaves result,  *)
(* prior and the ACFs as they were; the error is a ValueError naming the   *)
(* first mismatched detector and both its delta_t values when every        *)
(* detector before it has an ACF, and a KeyError naming the first detector *)
(* without an ACF otherwise.  A mismatch comes about only in an add_data   *)
(* or compute_acfs call, and that call returns.                            *)
C14_RunRejectsMismatch ==
    [][/\ (last'.op = "run" /\ \E i \in 1..Len(ifos) : Mismatched(ifos[i]))
          => (/\ result' = result /\ prior' = prior /\ acfs' = acfs
              /\ last'.out[1] = ifos[FirstBad]
              /\ IF Mismatched(ifos[FirstBad])
                 THEN /\ last'.exc = "ValueError"
                      /\ last'.out[2] = Get(acfs, ifos[FirstBad]).delta_t
                      /\ last'.out[3] = Get(data, ifos[FirstBad]).delta_t
                 ELSE last'.exc = "KeyError" /\ Len(last'.out) = 1)
       /\ (\E ifo \in Ifos : ~Mismatched(ifo) /\ Mismatched(ifo)')
          => (last'.op \in {"add_data", "compute_acfs"} /\ last'.exc = "")]_vars

C14_Witness ==
    /\ last.op = "run"
    /\ last.exc = "ValueError"
    /\ Len(data) = 2
    /\ last.out[1] = ifos[2]

(* C15: model_input computes ACFs exactly when the ACF mapping is empty,   *)
(* and then one for every detector present, from its series; when the      *)
(* mapping is not empty, also when it lacks a detector, model_input leaves *)
(* it as it is.                                                            *)
C15_AutoAcfsOnlyWhenEmpty ==
    [][last'.op = "model_input"
       => acfs' = IF acfs = <<>> THEN FreshAcfs ELSE acfs]_vars

C15_Witness ==
    /\ last.op = "model_input"
    /\ Len(data) = 2
    /\ Len(acfs) = 1

(* C16: with an ACF for some but not every detector, model_input and run   *)
(* raise; no payload is returned or submitted whose number of whitening    *)
(* factors differs from nobs.                                              *)
C16_NoPartialPayload ==
    /\ (last.op \in {"model_input", "run"} /\ acfs # <<>>
        /\ \E i \in 1..Len(ifos) : ~Has(acfs, ifos[i]))
       => last.exc # ""
    /\ (last.op \in {"model_input", "run"} /\ last.exc = "")
       => Len(Get(last.out[1], "L")[1]) = Get(last.out[1], "nobs")[1]

(* The option names of a dict, as a set. *)
KeySet(d) == {d[i][1] : i \in 1..Len(d)}

(* k is, up to case, an option of the active model. *)
Recognized(k) == \E v \in KeySet(_default_prior) : lower(v) = lower(k)

(* The value option k has in the payload: what was set, else the default. *)
Effective(k) ==
    IF Has(_prior_settings, k) THEN Get(_prior_settings, k) ELSE Get(_default_prior, k)

(* The options whose value in the payload is None. *)
Nulls == {k \in KeySet(_default_prior) \cup KeySet(_prior_settings) : Effective(k) = None}

(* C17: update_prior returns when every given name is recognized, also     *)
(* when a value is None, and stores the values; the constructor stores its *)
(* options as given.  model_input raises an error naming an option only if *)
(* that option is None in the payload, returns only if no option is None,  *)
(* and, once the data part of the payload is assembled, raises such an     *)
(* error whenever some option is None.                                     *)
C17_NullsRejectedAtPayload ==
    /\ (last.op = "update_prior" /\ \A j \in 1..Len(last.kws) : Recognized(last.kws[j][1]))
       => /\ last.exc = ""
          /\ \A j \in 1..Len(last.kws) :
                 \E v \in KeySet(_default_prior) :
                     lower(v) = lower(last.kws[j][1]) /\ Effective(v) = last.kws[j][2]
    /\ last.op = "__init__" => _prior_settings = last.kws
    /\ last.op = "model_input"
       => /\ (last.exc = "ValueError" /\ last.out[1] # "") => last.out[1] \in Nulls
          /\ last.exc = "" => Nulls = {}
          /\ (analysis_data.exc = "" /\ n_modes.exc = "" /\ acfs # <<>> /\ Nulls # {})
             => (last.exc = "ValueError" /\ last.out[1] \in Nulls)

C17_Witness ==
    /\ last.op = "model_input"
    /\ last.exc = "ValueError"
    /\ last.out[1] = "A_scale"
    /\ Has(_prior_settings, "A_scale")
    /\ Nulls = {"A_scale"}

(* C18: no state has, in prior_settings or in a returned payload, an       *)
(* option the active model does not have.                                  *)
C18_NoUnknownOption ==
    /\ KeySet(prior_settings) \subseteq KeySet(_default_prior)
    /\ Returned("model_input")
       => \A k \in KeySet(last.out[1]) \ KeySet(_default_prior) :
              k \in {"nsamp", "nmode", "nobs", "t0", "times", "strain", "L",
                     "FpFc", "dt_min", "dt_max", "f_coeffs", "g_coeffs"}

(* C19: when set_modes has returned, exactly one of _n_modes and modes is  *)
(* not None; after a count the list is None and n_modes is the count,      *)
(* after a list the count is None and n_modes is the length of the list.   *)
C19_CountOrList ==
    Returned("set_modes") =>
        /\ (_n_modes # None) # (modes # None)
        /\ IF "count" \in DOMAIN last.args
           THEN modes = None /\ n_modes = Ok(Some(last.args.count))
           ELSE _n_modes = None /\ n_modes = Ok(Some(Len(last.args.list)))

C19_Witness ==
    /\ Returned("set_modes")
    /\ "count" \in DOMAIN last.args
    /\ last.args.count = MaxCount
    /\ has_target

(* Every mode of list l has l = 2 and |m| = 2. *)
Aligned(l) == \A i \in 1..Len(l) : l[i][3] = 2 /\ l[i][4] \in {2, 0 - 2}

(* C20: on mchi_aligned set_modes returns for a mode list exactly when     *)
(* every mode has l = 2 and |m| = 2 and raises ValueError otherwise; on    *)
(* the other models it returns for every list.                             *)
C20_AlignedModesOnly ==
    (last.op = "set_modes" /\ "list" \in DOMAIN last.args) =>
        IF model = "mchi_aligned" /\ ~Aligned(last.args.list)
        THEN last.exc = "ValueError"
        ELSE last.exc = ""

C20_Witness ==
    /\ last.op = "set_modes"
    /\ last.exc = "ValueError"
    /\ model = "mchi_aligned"
    /\ \A i \in 1..Len(last.args.list) : last.args.list[i][3] = 2

(* C21: set_target called while there is no detector series raises         *)
(* ValueError and leaves target, start_times, antenna_patterns and the     *)
(* stored duration and count as they were.                                 *)
C21_NoDataNoChange ==
    [][(last'.op = "set_target" /\ data = <<>>)
       => (/\ last'.exc = "ValueError"
           /\ target' = target
           /\ start_times' = start_times
           /\ antenna_patterns' = antenna_patterns
           /\ _duration' = _duration
           /\ _n_analyze' = _n_analyze)]_vars

C21_Witness ==
    /\ last.op = "set_target"
    /\ last.exc = "ValueError"
    /\ data = <<>>
    /\ last.args.duration # None

(* C22: reading model_input leaves data, target, start_times,              *)
(* antenna_patterns, the modes, the stored prior options and the stored    *)
(* duration and count as they were, whether it returns or raises; it       *)
(* changes the ACF mapping only if that mapping was empty before the read. *)
C22_ModelInputFrame ==
    [][last'.op = "model_input"
       => (/\ data' = data
           /\ target' = target
           /\ start_times' = start_times
           /\ antenna_patterns' = antenna_patterns
           /\ modes' = modes /\ _n_modes' = _n_modes
           /\ _prior_settings' = _prior_settings
           /\ _duration' = _duration /\ _n_analyze' = _n_analyze
           /\ result' = result /\ prior' = prior
           /\ (acfs' # acfs => acfs = <<>>))]_vars

C22_Witness ==
    /\ Returned("model_input")
    /\ Len(data) = 2
    /\ Len(acfs) = 2
    /\ \E i \in 1..2 : Mismatched(ifos[i])

(* C23: when set_target has returned, every detector has start time        *)
(* t0 + delay and an antenna pattern, where on ftau and for the null       *)
(* detector key the delay is 0 and the pattern (1, 1), and otherwise each  *)
(* is the value passed for that detector in the call when there is one and *)
(* the detector-geometry value for the given sky location when not.        *)
C23_StartTimesFromTarget ==
    Returned("set_target") =>
        \A i \in 1..Len(data) :
            LET ifo == data[i][1]
                a == last.args
                flat == model = "ftau" \/ ifo = NoneIfo
                delay == IF flat THEN 0
                         ELSE IF Has(a.delays, ifo) THEN Get(a.delays, ifo)
                         ELSE TimeDelayFromEarthCenter(ifo, a.ra[1], a.dec[1], a.t0[1])
                pattern == IF flat THEN <<1, 1>>
                           ELSE IF Has(a.antenna_patterns, ifo)
                           THEN Get(a.antenna_patterns, ifo)
                           ELSE ComputeDetAMResponse(ifo, a.ra[1], a.dec[1],
                                                     a.psi[1], a.t0[1])
            IN  /\ Has(start_times, ifo) /\ Has(antenna_patterns, ifo)
                /\ Get(start_times, ifo) = a.t0[1] + delay
                /\ Get(antenna_patterns, ifo) = pattern

C23_Witness ==
    /\ Returned("set_target")
    /\ model = "ftau"
    /\ Has(data, "H1") /\ Has(data, NoneIfo)
    /\ Has(last.args.delays, "H1")
    /\ Get(start_times, "H1") = last.args.t0[1]

(* Index k of series d is nearest to time t, and the lowest such index. *)
NearestLowest(d, k, t) ==
    /\ k \in 0..(d.n - 1)
    /\ \A j \in 0..(d.n - 1) :
           /\ Abs(time(d, k) - t) <= Abs(time(d, j) - t)
           /\ Abs(time(d, k) - t) = Abs(time(d, j) - t) => k <= j

(* C24: start_indices is the empty mapping when no target is set, and      *)
(* otherwise maps every detector to the index of the sample nearest to the *)
(* detector's start time, the lowest index when two are equally near.      *)
C24_NearestLowestIndex ==
    IF ~has_target THEN start_indices = Ok(<<>>)
    ELSE /\ start_indices.exc = ""
         /\ Keys(start_indices.val) = Keys(data)
         /\ \A i \in 1..Len(data) :
                NearestLowest(data[i][2], start_indices.val[i][2],
                              Get(start_times, data[i][1]))

(* The list a returned payload has under name k. *)
PayloadList(k) == Get(last.out[1], k)[1]

(* C25: in every payload model_input returns, t0, times, strain, L and     *)
(* FpFc have nobs entries each, and the k-th entry of each belongs to the  *)
(* k-th detector of data.                                                  *)
C25_ListsAligned ==
    Returned("model_input") =>
        LET nobs == Get(last.out[1], "nobs")[1] IN
        /\ nobs = Len(data)
        /\ \A name \in {"t0", "times", "strain", "L", "FpFc"} :
               Len(PayloadList(name)) = nobs
        /\ \A k \in 1..nobs :
               LET ifo == ifos[k] IN
               /\ PayloadList("t0")[k] = Get(start_times, ifo)
               /\ PayloadList("FpFc")[k] = Get(antenna_patterns, ifo)
               /\ PayloadList("times")[k] = Get(analysis_data.val, ifo)
               /\ PayloadList("strain")[k] = Get(analysis_data.val, ifo)
               /\ Keys(acfs)[k] = ifo
               /\ PayloadList("L")[k].src = Get(acfs, ifo).src
               /\ PayloadList("L")[k].of = Get(acfs, ifo).of

(* C26: in every state with a target set, start_times and                  *)
(* antenna_patterns have an entry for every detector in data, and          *)
(* start_indices, n_analyze, analysis_data and condition_data do not raise *)
(* KeyError.                                                               *)
C26_EveryDetectorTimed ==
    has_target =>
        /\ \A i \in 1..Len(data) :
               Has(start_times, data[i][1]) /\ Has(antenna_patterns, data[i][1])
        /\ start_indices.exc # "KeyError"
        /\ n_analyze.exc # "KeyError"
        /\ analysis_data.exc # "KeyError"
        /\ condition_data(1).exc # "KeyError"

====
